---- MODULE Spec2Model ----
(***************************************************************************)
(* draftsync: the manifest store (drive.js readManifest / writeManifest),  *)
(* the sync commands of cli.js over the manifest file, and the Pandoc      *)
(* wrapper (pandoc.js).                                                    *)
(*                                                                         *)
(* A file is a sequence of JSON tokens, so that JSON.stringify and         *)
(* JSON.parse are two different computations and a truncated or appended   *)
(* file is a text that JSON.parse rejects.                                 *)
(***************************************************************************)
EXTENDS Integers, Sequences, FiniteSets, TLC

VARIABLES
    disk,       \* the file system: path -> [exists, text]
    clock,      \* the wall clock read by new Date()
    call,       \* the last operation invoked and its arguments
    ret,        \* what that operation returned or threw
    out,        \* the console lines the operation printed
    effects,    \* what the operation did: authenticate / convert / createDoc / formatDocument / writeFile calls, spawnSync argument lists
    pre,        \* the file system when the operation started
    written,    \* per path: the objects of the latest writeManifest calls not overwritten by anything else (newest first)
    writer,     \* an fs.writeFile in progress: [pc, path, data, before]
    procs       \* two invocations running at the same time: per process [pc, cmd, data, wrote, seen, overlap]

vars == <<disk, clock, call, ret, out, effects, pre, written, writer, procs>>

\* before the first operation; no fs.writeFile in progress
NoCall == [op |-> "none"]
Idle == [pc |-> "idle"]
\* the two processes of concurrent invocations
Procs == {1, 2}

----------------------------------------------------------------------------
(* Bounds of the model *)

\* new Date() readings 0..MaxClock
MaxClock == 1

----------------------------------------------------------------------------
(* JSON values, tagged so that values of different kinds compare *)

Undefined == [k |-> "undefined"]
Null == [k |-> "null"]
JStr(s) == [k |-> "string", s |-> s]
JNum(n) == [k |-> "number", n |-> n]
\* an array of strings
JArr(a) == [k |-> "array", a |-> a]
\* the string new Date(n).toISOString()
JDate(n) == [k |-> "string", iso |-> n]
JObj(m) == [k |-> "object", m |-> m]
JBool(b) == [k |-> "boolean", b |-> b]

EmptyMap == [x \in {} |-> Undefined]
IsObj(v) == v.k = "object"
Keys(v) == IF IsObj(v) THEN DOMAIN v.m ELSE {}
\* v[key] of JavaScript on a value that is not undefined
GetProp(v, key) == IF key \in Keys(v) THEN v.m[key] ELSE Undefined
\* v[key] = x on an object
SetProp(v, key, x) ==
    JObj([q \in Keys(v) \cup {key} |-> IF q = key THEN x ELSE v.m[q]])
\* JavaScript truthiness: undefined, null, "", 0 and false are falsy
Truthy(v) == v # Undefined /\ v # Null /\ v # JStr("") /\ v # JNum(0) /\ v # JBool(FALSE)
\* v ?? d
Nullish(v, d) == IF v = Undefined \/ v = Null THEN d ELSE v
\* a parameter with a default value: param = dflt
Default(v, dflt) == IF v = Undefined THEN dflt ELSE v

----------------------------------------------------------------------------
(* JSON text: a sequence of tokens *)

LBRACE == [t |-> "{"]
RBRACE == [t |-> "}"]
COLON == [t |-> ":"]
COMMA == [t |-> ","]
StrTok(s) == [s |-> s, t |-> "str"]
DateTok(n) == [iso |-> n, t |-> "str"]

RECURSIVE SetToSeq(_)
SetToSeq(S) ==
    IF S = {} THEN <<>>
    ELSE LET x == CHOOSE y \in S : TRUE IN <<x>> \o SetToSeq(S \ {x})

\* JSON.stringify(value, null, 2); white space is not modelled
RECURSIVE JSONstringify(_)
RECURSIVE StringifyMembers(_, _)
StringifyMembers(m, ks) ==
    IF ks = <<>> THEN <<>>
    ELSE <<StrTok(Head(ks)), COLON>> \o JSONstringify(m[Head(ks)])
         \o (IF Tail(ks) = <<>> THEN <<>> ELSE <<COMMA>>)
         \o StringifyMembers(m, Tail(ks))
JSONstringify(v) ==
    IF IsObj(v) THEN <<LBRACE>> \o StringifyMembers(v.m, SetToSeq(DOMAIN v.m)) \o <<RBRACE>>
    ELSE IF "iso" \in DOMAIN v THEN <<DateTok(v.iso)>>
    ELSE <<StrTok(v.s)>>

ParseFail == [v |-> Undefined, ok |-> FALSE, rest |-> <<>>]
ParseOk(v, rest) == [v |-> v, ok |-> TRUE, rest |-> rest]
Drop(s, n) == SubSeq(s, n + 1, Len(s))
IsKeyTok(tok) == tok.t = "str" /\ "s" \in DOMAIN tok

\* the recursive descent of JSON.parse: a value, then what is left of the text
RECURSIVE ParseValue(_)
RECURSIVE ParseMembers(_, _)
ParseMembers(toks, acc) ==
    IF Len(toks) < 3 \/ ~IsKeyTok(toks[1]) \/ toks[2] # COLON THEN ParseFail
    ELSE LET r == ParseValue(Drop(toks, 2)) IN
         IF ~r.ok \/ r.rest = <<>> THEN ParseFail
         ELSE LET acc2 == SetProp(acc, toks[1].s, r.v) IN
              IF Head(r.rest) = RBRACE THEN ParseOk(acc2, Tail(r.rest))
              ELSE IF Head(r.rest) = COMMA THEN ParseMembers(Tail(r.rest), acc2)
              ELSE ParseFail
ParseValue(toks) ==
    IF toks = <<>> THEN ParseFail
    ELSE LET h == Head(toks) IN
         IF h.t = "str" THEN
             ParseOk(IF "iso" \in DOMAIN h THEN JDate(h.iso) ELSE JStr(h.s), Tail(toks))
         ELSE IF h = LBRACE THEN
             IF Len(toks) >= 2 /\ toks[2] = RBRACE THEN ParseOk(JObj(EmptyMap), Drop(toks, 2))
             ELSE ParseMembers(Tail(toks), JObj(EmptyMap))
         ELSE ParseFail

\* outcomes of a call: a returned value, or a thrown error (its name and the
\* pieces of its message)
Return(v) == [v |-> v, thrown |-> "none", message |-> <<>>]
Throw(e, msg) == [v |-> Undefined, thrown |-> e, message |-> msg]

\* JSON.parse(text): throws SyntaxError unless the whole text is one value
JSONparse(text) ==
    LET r == ParseValue(text) IN
    IF r.ok /\ r.rest = <<>> THEN Return(r.v) ELSE Throw("SyntaxError", <<JStr("Unexpected token in JSON")>>)

----------------------------------------------------------------------------
(* The file system *)

MANIFEST_FILE == ".draftsync.json"
\* the manifest path of a caller that passes its own (the unit tests' temp directory)
OtherPath == "tmp/.draftsync.json"
Paths == {MANIFEST_FILE, OtherPath}

Absent == [text |-> <<>>, exists |-> FALSE]
File(text) == [text |-> text, exists |-> TRUE]

\* fs.readFile(path, 'utf8'): the text, or ENOENT
fsReadFile(d, path) ==
    IF d[path].exists THEN [thrown |-> "none", text |-> d[path].text]
    ELSE [thrown |-> "ENOENT", text |-> <<>>]

\* fs.writeFile(path, text, 'utf8') run to completion: flag 'w' creates or
\* truncates the file, then the whole text is written
fsWriteFile(d, path, text) == [d EXCEPT ![path] = File(text)]

----------------------------------------------------------------------------
(* drive.js: the manifest store *)

\* the mutant of readManifest that catches every error: a corrupt file reads as {}
readManifest_swallow(d, manifestPath) ==
    LET content == fsReadFile(d, manifestPath)
        parsed == JSONparse(content.text)
    IN  IF content.thrown = "none" /\ parsed.thrown = "none" THEN parsed
        ELSE Return(JObj(EmptyMap))

readManifest(d, manifestPath) ==
    LET content == fsReadFile(d, manifestPath) IN
    IF content.thrown = "none" THEN JSONparse(content.text)
    ELSE IF content.thrown = "ENOENT" THEN Return(JObj(EmptyMap))
    ELSE Throw(content.thrown, <<>>)

\* JSON.stringify(obj, Object.keys(obj), 2): the replacer array drops every nested
\* property whose name is not a top-level key
RECURSIVE KeepKeys(_, _)
KeepKeys(v, ks) ==
    IF IsObj(v) THEN JObj([key \in Keys(v) \cap ks |-> KeepKeys(v.m[key], ks)]) ELSE v
\* the mutant of writeManifest that passes the top-level keys as replacer
writeManifest_replacer(d, obj, manifestPath) ==
    fsWriteFile(d, manifestPath, JSONstringify(KeepKeys(obj, Keys(obj))))

\* the mutant of writeManifest that merges the new object into what the file holds
writeManifest_merge(d, obj, manifestPath) ==
    LET old == JSONparse(d[manifestPath].text)
        merged == [key \in Keys(old.v) \cup Keys(obj) |->
                      IF key \in Keys(obj) THEN obj.m[key] ELSE old.v.m[key]]
    IN  fsWriteFile(d, manifestPath, JSONstringify(JObj(merged)))

writeManifest(d, obj, manifestPath) ==
    fsWriteFile(d, manifestPath, JSONstringify(obj))

----------------------------------------------------------------------------
(* cli.js: loadManifest / saveManifest *)

\* the mutant of loadManifest that returns {} for a missing file, as readManifest does
loadManifest_emptyObject(d) ==
    LET data == fsReadFile(d, MANIFEST_FILE) IN
    IF data.thrown = "none" THEN JSONparse(data.text)
    ELSE IF data.thrown = "ENOENT" THEN Return(JObj(EmptyMap))
    ELSE Throw(data.thrown, <<>>)

loadManifest(d) ==
    LET data == fsReadFile(d, MANIFEST_FILE) IN
    IF data.thrown = "none" THEN JSONparse(data.text)
    ELSE IF data.thrown = "ENOENT" THEN Return(JObj("files" :> JObj(EmptyMap)))
    ELSE Throw(data.thrown, <<>>)

saveManifest(d, manifest) ==
    fsWriteFile(d, MANIFEST_FILE, JSONstringify(manifest))

----------------------------------------------------------------------------
(* pandoc.js: argument builders and the spawnSync wrapper *)

\* the mutant of buildMdToDocxArgs that pushes the flag whatever refdoc is
buildMdToDocxArgs_always(mdPath, outDocx, refdocArg) ==
    LET refdoc == Default(refdocArg, Null) IN
    JArr(<<mdPath, "-o", outDocx, "--reference-doc",
           IF "s" \in DOMAIN refdoc THEN refdoc.s ELSE "null">>)

\* the mutant of buildMdToDocxArgs that passes the flag and the path as one
\* argument, as the shell command of convertMarkdownToDocx does
buildMdToDocxArgs_joined(mdPath, outDocx, refdocArg) ==
    LET refdoc == Default(refdocArg, Null)
        args == <<mdPath, "-o", outDocx>>
    IN  IF Truthy(refdoc) THEN JArr(args \o <<"--reference-doc=", refdoc.s>>)
        ELSE JArr(args)

buildMdToDocxArgs(mdPath, outDocx, refdocArg) ==
    LET refdoc == Default(refdocArg, Null)
        args == <<mdPath, "-o", outDocx>>
    IN  IF Truthy(refdoc) THEN JArr(args \o <<"--reference-doc", refdoc.s>>)
        ELSE JArr(args)

buildDocxToMdArgs(docxPath, outMd) == JArr(<<docxPath, "-o", outMd>>)

\* v?.toString()
OptToString(v) == IF v = Undefined \/ v = Null THEN Undefined ELSE v

\* the mutant of runPandoc that normalises with `result.status || 1`
runPandoc_or(args, result) ==
    [status |-> IF Truthy(result.status) THEN result.status ELSE JNum(1),
     stdout |-> OptToString(result.stdout),
     stderr |-> OptToString(result.stderr)]

\* runPandoc(args), given what spawnSync('pandoc', args, ...) reports
runPandoc(args, result) ==
    [status |-> Nullish(result.status, JNum(1)),
     stdout |-> OptToString(result.stdout),
     stderr |-> OptToString(result.stderr)]

\* the direction labels of the error messages ("md → docx", "docx → md")
MD_TO_DOCX == "md -> docx"
DOCX_TO_MD == "docx -> md"

\* `pandoc failed (${direction}) with status ${status}`
PandocFailed(direction, status) ==
    Throw("Error", <<JStr("pandoc failed ("), JStr(direction), JStr(") with status "), status>>)

SpawnCall(args) == [args |-> args.a, file |-> "pandoc"]

\* mdToDocx: the outcome and the spawnSync calls made
mdToDocx(mdPath, outDocx, refdocArg, spawned) ==
    LET refdoc == Default(refdocArg, Null)
        args == buildMdToDocxArgs(mdPath, outDocx, refdoc)
        result == runPandoc(args, spawned)
    IN  [ret |-> IF result.status # JNum(0) THEN PandocFailed(MD_TO_DOCX, result.status)
                 ELSE Return(Undefined),
         spawnSync |-> <<SpawnCall(args)>>]

\* the mutant of docxToMd that throws with the label of the other direction
docxToMd_label(docxPath, outMd, spawned) ==
    LET args == buildDocxToMdArgs(docxPath, outMd)
        result == runPandoc(args, spawned)
    IN  [ret |-> IF result.status # JNum(0) THEN PandocFailed(MD_TO_DOCX, result.status)
                 ELSE Return(Undefined),
         spawnSync |-> <<SpawnCall(args)>>]

docxToMd(docxPath, outMd, spawned) ==
    LET args == buildDocxToMdArgs(docxPath, outMd)
        result == runPandoc(args, spawned)
    IN  [ret |-> IF result.status # JNum(0) THEN PandocFailed(DOCX_TO_MD, result.status)
                 ELSE Return(Undefined),
         spawnSync |-> <<SpawnCall(args)>>]

----------------------------------------------------------------------------
(* docs.js: the batchUpdate requests of the house style *)

\* the mutant that takes the inches for points
MarginPoints_inches(marginsInch) == marginsInch.n

\* marginsInch * 72
MarginPoints(marginsInch) == marginsInch.n * 72

Dimension(marginPoints) == [magnitude |-> marginPoints, unit |-> "PT"]

UpdateDocumentStyle(marginPoints) ==
    [updateDocumentStyle |->
        [documentStyle |->
            [marginTop |-> Dimension(marginPoints),
             marginBottom |-> Dimension(marginPoints),
             marginLeft |-> Dimension(marginPoints),
             marginRight |-> Dimension(marginPoints)],
         fields |-> "marginTop,marginBottom,marginLeft,marginRight"]]

UpdateParagraphStyle ==
    [updateParagraphStyle |->
        [fields |-> "lineSpacing",
         range |-> [startIndex |-> 1, endIndex |-> -1],
         paragraphStyle |-> [lineSpacing |-> 200]]]

CreateHeader ==
    [createHeader |-> [type |-> "DEFAULT", sectionBreakLocation |-> [index |-> 1]]]

\* buildHouseStyleRequests(options): the array of requests
buildHouseStyleRequests(optionsArg) ==
    LET options == Default(optionsArg, JObj(EmptyMap))
        marginsInch == Default(GetProp(options, "marginsInch"), JNum(1))
        doubleSpacing == Default(GetProp(options, "doubleSpacing"), JBool(TRUE))
        headerText == Default(GetProp(options, "headerText"), Null)
        marginPoints == MarginPoints(marginsInch)
    IN  <<UpdateDocumentStyle(marginPoints)>>
        \o (IF Truthy(doubleSpacing) THEN <<UpdateParagraphStyle>> ELSE <<>>)
        \o (IF Truthy(headerText) THEN <<CreateHeader>> ELSE <<>>)

----------------------------------------------------------------------------
(* cli.js: what one command invocation does *)

\* a console line: its fixed text and the values interpolated into it
Line(msg, args) == [msg |-> msg, args |-> args]

\* steps: the calls to authenticate, a conversion, createDoc, saveManifest and
\* formatDocument, in the order in which the handler made them
NoEffects ==
    [spawnSync |-> <<>>, authenticate |-> 0, createDoc |-> 0, formatDocument |-> 0,
     writeFile |-> 0, exec |-> <<>>, mkdir |-> <<>>, steps |-> <<>>]

\* the run of a command: the file system it leaves, how the handler ended,
\* what it printed and what it called
Run(d, r, o, e) == [disk |-> d, ret |-> r, out |-> o, effects |-> e]

TypeErrorUndefined ==
    Throw("TypeError", <<JStr("Cannot read properties of undefined")>>)

\* catch (error) { console.error(`Error: ${error.message}`) }: the handler returns
Caught(d, o, e, error) ==
    Run(d, Return(Undefined), o \o <<Line("x Error: ", error.message)>>, e)

\* path.join('dist', path.basename(filePath, '.md') + '.docx')
DocxPath(filePath) ==
    CASE filePath = "content/ch1.md" -> "dist/ch1.docx"
      [] filePath = "content/ch2.md" -> "dist/ch2.docx"
      [] OTHER -> "dist/file.docx"

\* a shell command: words, each the concatenation of its pieces
PandocVersionCmd == << <<"pandoc">>, <<"--version">> >>
Quoted(x) == <<"\"", x, "\"">>

PandocNotInstalled ==
    Throw("Error", <<JStr("Pandoc is not installed. Install it from https://pandoc.org/installing.html")>>)
PandocConversionFailed ==
    Throw("Error", <<JStr("Pandoc conversion failed: "), JStr("Command failed")>>)

\* path.dirname(outputPath)
Dirname(filePath) ==
    CASE filePath \in {"content/ch1.md", "content/ch2.md"} -> "content"
      [] OTHER -> "."

\* what a conversion did: how it ended, the lines it printed, the shell commands
\* it ran and the directories it made
Conversion(r, o, cmds, dirs) == [ret |-> r, out |-> o, exec |-> cmds, mkdir |-> dirs]

\* pandoc.js convertMarkdownToDocx: env.pandoc says whether `pandoc --version`
\* runs and whether the conversion command exits with 0
convertMarkdownToDocx(mdPath, refdocPath, env) ==
    LET outputPath == DocxPath(mdPath)
        o == <<Line("  Converting to DOCX...", <<JStr(mdPath)>>)>>
        command == << <<"pandoc">>, Quoted(mdPath), <<"-o">>, Quoted(outputPath) >>
                   \o (IF Truthy(refdocPath)
                       THEN << <<"--reference-doc=">> \o Quoted(refdocPath.s) >>
                       ELSE <<>>)
    IN  IF env.pandoc = "missing"
        THEN Conversion(PandocNotInstalled, o, <<PandocVersionCmd>>, <<>>)
        ELSE IF env.pandoc = "fails"
        THEN Conversion(PandocConversionFailed, o, <<PandocVersionCmd, command>>, <<"dist">>)
        ELSE Conversion(Return(JStr(outputPath)),
                        o \o <<Line("  v Created ", <<JStr(outputPath)>>)>>,
                        <<PandocVersionCmd, command>>, <<"dist">>)

convertDocxToMarkdown(docxPath, outputPath, env) ==
    LET o == <<Line("  Converting to Markdown...", <<JStr(docxPath)>>)>>
        outputDir == Dirname(outputPath)
        command == << <<"pandoc">>, Quoted(docxPath), <<"-o">>, Quoted(outputPath),
                      <<"--wrap=none">>, <<"--extract-media=.">> >>
    IN  IF env.pandoc = "missing"
        THEN Conversion(PandocNotInstalled, o, <<PandocVersionCmd>>, <<>>)
        ELSE IF env.pandoc = "fails"
        THEN Conversion(PandocConversionFailed, o, <<PandocVersionCmd, command>>, <<outputDir>>)
        ELSE Conversion(Return(JStr(outputPath)),
                        o \o <<Line("  v Created ", <<JStr(outputPath)>>)>>,
                        <<PandocVersionCmd, command>>, <<outputDir>>)

\* the mutant of ConversionOk that goes on after a conversion that threw
ConversionOk_always(conv) == TRUE

\* the awaited conversion returned: the statements after it in the try block run
ConversionOk(conv) == conv.ret.thrown = "none"

\* the mutant of FileEntry that stamps every entry with the same date
FileEntry_epoch(gdocId, now) == JObj("gdocId" :> gdocId @@ "lastSync" :> JDate(0))

FileEntry(gdocId, now) == JObj("gdocId" :> gdocId @@ "lastSync" :> JDate(now))

InitialManifest ==
    JObj("version" :> JStr("1.0")
         @@ "files" :> JObj(EmptyMap)
         @@ "config" :> JObj("contentDir" :> JStr("content")
                             @@ "distDir" :> JStr("dist")
                             @@ "templatesDir" :> JStr("templates")))

\* the directories init creates with mkdir(dir, { recursive: true })
ProjectDirs == <<"content", "dist", "templates">>

initCommand(d) ==
    Run(saveManifest(d, InitialManifest), Return(Undefined),
        <<Line("Initializing draftsync project...", <<>>)>>
        \o [i \in DOMAIN ProjectDirs |-> Line("v Created ", <<JStr(ProjectDirs[i])>>)]
        \o <<Line("v Initialized draftsync project", <<>>),
             Line("Next steps:", <<>>),
             Line("  1. Place your Markdown files in content/", <<>>),
             Line("  2. Run \"draftsync push <file.md>\" to sync to Google Docs", <<>>),
             Line("  3. Run \"draftsync build:epub\" to generate an EPUB", <<>>)>>,
        [NoEffects EXCEPT !.writeFile = 1, !.mkdir = ProjectDirs, !.steps = <<"saveManifest">>])

\* the mutant of linkCommand that writes a manifest holding the new entry alone
linkCommand_fresh(d, now, filePath, gdocId) ==
    LET o == <<Line("Linking to Google Doc", <<JStr(filePath), JStr(gdocId)>>)>>
        loaded == loadManifest(d)
        files == GetProp(loaded.v, "files")
    IN  IF loaded.thrown # "none" THEN Run(d, loaded, o, NoEffects)
        ELSE IF ~IsObj(files) THEN Run(d, TypeErrorUndefined, o, NoEffects)
        ELSE Run(saveManifest(d, JObj("files" :> JObj(filePath :> FileEntry(JStr(gdocId), now)))),
                 Return(Undefined),
                 o \o <<Line("File linked successfully", <<>>)>>,
                 [NoEffects EXCEPT !.writeFile = 1, !.steps = <<"saveManifest">>])

\* the mutant of linkCommand that keeps the entry of a path already linked
linkCommand_keep(d, now, filePath, gdocId) ==
    LET o == <<Line("Linking to Google Doc", <<JStr(filePath), JStr(gdocId)>>)>>
        loaded == loadManifest(d)
        manifest == loaded.v
        files == GetProp(manifest, "files")
        entry == IF filePath \in Keys(files) THEN GetProp(files, filePath)
                 ELSE FileEntry(JStr(gdocId), now)
    IN  IF loaded.thrown # "none" THEN Run(d, loaded, o, NoEffects)
        ELSE IF ~IsObj(files) THEN Run(d, TypeErrorUndefined, o, NoEffects)
        ELSE Run(saveManifest(d, SetProp(manifest, "files", SetProp(files, filePath, entry))),
                 Return(Undefined),
                 o \o <<Line("File linked successfully", <<>>)>>,
                 [NoEffects EXCEPT !.writeFile = 1, !.steps = <<"saveManifest">>])

linkCommand(d, now, filePath, gdocId) ==
    LET o == <<Line("Linking to Google Doc", <<JStr(filePath), JStr(gdocId)>>)>>
        loaded == loadManifest(d)
        manifest == loaded.v
        files == GetProp(manifest, "files")
    IN  IF loaded.thrown # "none" THEN Run(d, loaded, o, NoEffects)
        ELSE IF ~IsObj(files) THEN Run(d, TypeErrorUndefined, o, NoEffects)
        ELSE Run(saveManifest(d, SetProp(manifest, "files",
                                  SetProp(files, filePath, FileEntry(JStr(gdocId), now)))),
                 Return(Undefined),
                 o \o <<Line("File linked successfully", <<>>)>>,
                 [NoEffects EXCEPT !.writeFile = 1, !.steps = <<"saveManifest">>])

\* the mutant of PushPlan that reports the authentication before the reference document
PushPlan_authFirst(options) ==
    <<Line("[DRY RUN] Would perform the following steps:", <<>>),
      Line("  1. Read Markdown file", <<>>),
      Line("  2. Would convert MD -> DOCX using Pandoc", <<>>),
      Line("  4. Would authenticate with Google API", <<>>)>>
    \o (IF Truthy(options.refdoc)
        THEN <<Line("  3. Would apply reference document: ", <<options.refdoc>>)>>
        ELSE <<>>)
    \o (IF Truthy(options.folderId)
        THEN <<Line("  5. Would create Google Doc in folder: ", <<options.folderId>>)>>
        ELSE <<Line("  5. Would create Google Doc in root", <<>>)>>)
    \o (IF options.format
        THEN <<Line("  6. Would apply formatting (double-space, margins, headers)", <<>>)>>
        ELSE <<>>)

\* the mutant of pushCommand that loads the manifest before it looks at --dry-run
pushCommand_loadFirst(d, now, filePath, options, env) ==
    LET o0 == <<Line("Pushing to Google Docs...", <<JStr(filePath)>>)>>
        loaded == loadManifest(d)
    IN  IF loaded.thrown # "none" THEN Run(d, loaded, o0, NoEffects)
        ELSE Run(d, Return(Undefined), o0 \o <<Line("[DRY RUN]", <<>>)>>, NoEffects)

\* the plan that push --dry-run prints (cli.js 107-121)
PushPlan(options) ==
    <<Line("[DRY RUN] Would perform the following steps:", <<>>),
      Line("  1. Read Markdown file", <<>>),
      Line("  2. Would convert MD -> DOCX using Pandoc", <<>>)>>
    \o (IF Truthy(options.refdoc)
        THEN <<Line("  3. Would apply reference document: ", <<options.refdoc>>)>>
        ELSE <<>>)
    \o <<Line("  4. Would authenticate with Google API", <<>>)>>
    \o (IF Truthy(options.folderId)
        THEN <<Line("  5. Would create Google Doc in folder: ", <<options.folderId>>)>>
        ELSE <<Line("  5. Would create Google Doc in root", <<>>)>>)
    \o (IF options.format
        THEN <<Line("  6. Would apply formatting (double-space, margins, headers)", <<>>)>>
        ELSE <<>>)

\* the tail of pushCommand's try block, once the document id is known
PushFinish(d, o, e, filePath, options, docId) ==
    Run(d, Return(Undefined),
        o \o (IF options.format THEN <<Line("Applied formatting", <<>>)>> ELSE <<>>)
          \o <<Line("Successfully pushed ", <<JStr(filePath)>>),
               Line("  View at: https://docs.google.com/document/d/", <<docId>>)>>,
        [e EXCEPT !.formatDocument = IF options.format THEN 1 ELSE 0,
                  !.steps = @ \o (IF options.format THEN <<"formatDocument">> ELSE <<>>)])

\* path.basename(filePath, '.md')
Basename(filePath) ==
    CASE filePath = "content/ch1.md" -> "ch1"
      [] filePath = "content/ch2.md" -> "ch2"
      [] OTHER -> "file"

\* drive.js createDoc (a stub): the lines it prints; the id it returns is env.fakeId
createDoc(title, docxPath, folderIdArg) ==
    LET folderId == Default(folderIdArg, Null) IN
    <<Line("  [STUB] Creating Google Doc: ", <<JStr(title)>>),
      Line("  [STUB] Would upload to Drive", <<docxPath>>)>>
    \o (IF Truthy(folderId)
        THEN <<Line("  [STUB] Would place in folder: ", <<folderId>>)>>
        ELSE <<>>)

\* the mutant of DryRun that ignores --dry-run
DryRun_never(options) == FALSE

\* if (options.dryRun)
DryRun(options) == options.dryRun

\* the mutant of HasDoc that never finds a linked document
HasDoc_never(fileInfo) == FALSE

\* fileInfo && fileInfo.gdocId (cli.js 137)
HasDoc(fileInfo) == Truthy(fileInfo) /\ Truthy(GetProp(fileInfo, "gdocId"))

\* env.pandoc: the conversion tool's state; env.fakeId: the id createDoc makes up
pushCommand(d, now, filePath, options, env) ==
    LET o0 == <<Line("Pushing to Google Docs...", <<JStr(filePath)>>)>> IN
    IF DryRun(options) THEN Run(d, Return(Undefined), o0 \o PushPlan(options), NoEffects)
    ELSE
    LET o1 == o0 \o <<Line("Authenticated with Google", <<>>)>>
        conv == convertMarkdownToDocx(filePath, options.refdoc, env)
        e1 == [NoEffects EXCEPT !.authenticate = 1, !.exec = conv.exec, !.mkdir = conv.mkdir,
                                !.steps = <<"authenticate", "convert">>]
        o2 == o1 \o conv.out \o <<Line("Converted to DOCX: ", <<conv.ret.v>>)>>
        loaded == loadManifest(d)
        manifest == loaded.v
        files == GetProp(manifest, "files")
        fileInfo == GetProp(files, filePath)
    IN  IF ~ConversionOk(conv) THEN Caught(d, o1 \o conv.out, e1, conv.ret)
        ELSE IF loaded.thrown # "none" THEN Caught(d, o2, e1, loaded)
        ELSE IF files = Undefined THEN Caught(d, o2, e1, TypeErrorUndefined)
        ELSE IF HasDoc(fileInfo)
        THEN PushFinish(d,
                        o2 \o <<Line("  Updating existing doc: ", <<GetProp(fileInfo, "gdocId")>>)>>,
                        e1, filePath, options, GetProp(fileInfo, "gdocId"))
        ELSE IF ~IsObj(files)
        THEN Caught(d, o2 \o createDoc(Basename(filePath), conv.ret.v, options.folderId)
                       \o <<Line("Created new Google Doc: ", <<JStr(env.fakeId)>>)>>,
                    [e1 EXCEPT !.createDoc = 1, !.steps = @ \o <<"createDoc">>],
                    TypeErrorUndefined)
        ELSE PushFinish(saveManifest(d, SetProp(manifest, "files",
                                         SetProp(files, filePath, FileEntry(JStr(env.fakeId), now)))),
                        o2 \o createDoc(Basename(filePath), conv.ret.v, options.folderId)
                           \o <<Line("Created new Google Doc: ", <<JStr(env.fakeId)>>)>>,
                        [e1 EXCEPT !.createDoc = 1, !.writeFile = 1,
                                   !.steps = @ \o <<"createDoc", "saveManifest">>],
                        filePath, options, JStr(env.fakeId))

\* the plan that pull --dry-run prints (cli.js 183-187)
PullPlan(filePath, fileInfo) ==
    <<Line("[DRY RUN] Would perform the following steps:", <<>>),
      Line("  1. Would authenticate with Google API", <<>>),
      Line("  2. Would export Google Doc as DOCX", <<GetProp(fileInfo, "gdocId")>>),
      Line("  3. Would convert DOCX -> MD using Pandoc", <<>>),
      Line("  4. Would save to ", <<JStr(filePath)>>)>>

NOT_LINKED == "x No Google Doc linked to "

\* the mutant of NotLinked that tests the entry alone: !fileInfo
NotLinked_entryOnly(fileInfo) == ~Truthy(fileInfo)

\* !fileInfo || !fileInfo.gdocId (cli.js 175)
NotLinked(fileInfo) == ~Truthy(fileInfo) \/ ~Truthy(GetProp(fileInfo, "gdocId"))

\* the mutant of pullCommand that stamps the entry before it converts
pullCommand_stampFirst(d, now, filePath, options, env) ==
    LET o0 == <<Line("Pulling from Google Docs...", <<JStr(filePath)>>)>>
        loaded == loadManifest(d)
        manifest == loaded.v
        files == GetProp(manifest, "files")
        fileInfo == GetProp(files, filePath)
        o1 == o0 \o <<Line("Authenticated with Google", <<>>),
                      Line("  Downloaded to ", <<JStr(DocxPath(filePath))>>)>>
        conv == convertDocxToMarkdown(DocxPath(filePath), filePath, env)
        e1 == [NoEffects EXCEPT !.authenticate = 1, !.writeFile = 1, !.exec = conv.exec,
                                !.mkdir = conv.mkdir,
                                !.steps = <<"authenticate", "saveManifest", "convert">>]
        o2 == o1 \o conv.out
    IN  IF loaded.thrown # "none" THEN Run(d, loaded, o0, NoEffects)
        ELSE IF files = Undefined THEN Run(d, TypeErrorUndefined, o0, NoEffects)
        ELSE IF NotLinked(fileInfo)
        THEN Run(d, Return(Undefined),
                 o0 \o <<Line(NOT_LINKED, <<JStr(filePath)>>),
                         Line("  Run \"draftsync link <file> <gdoc-id>\" first", <<>>)>>,
                 NoEffects)
        ELSE IF DryRun(options)
        THEN Run(d, Return(Undefined), o0 \o PullPlan(filePath, fileInfo), NoEffects)
        ELSE IF ~IsObj(fileInfo) THEN Caught(d, o1, [NoEffects EXCEPT !.authenticate = 1], TypeErrorUndefined)
        ELSE LET saved == saveManifest(d, SetProp(manifest, "files",
                                           SetProp(files, filePath,
                                                   SetProp(fileInfo, "lastSync", JDate(now)))))
             IN  IF ~ConversionOk(conv) THEN Caught(saved, o2, e1, conv.ret)
                 ELSE Run(saved, Return(Undefined),
                          o2 \o <<Line("Converted to Markdown: ", <<JStr(filePath)>>),
                                  Line("Successfully pulled ", <<JStr(filePath)>>)>>,
                          e1)

pullCommand(d, now, filePath, options, env) ==
    LET o0 == <<Line("Pulling from Google Docs...", <<JStr(filePath)>>)>>
        loaded == loadManifest(d)
        manifest == loaded.v
        files == GetProp(manifest, "files")
        fileInfo == GetProp(files, filePath)
        o1 == o0 \o <<Line("Authenticated with Google", <<>>),
                      Line("  Downloaded to ", <<JStr(DocxPath(filePath))>>)>>
        conv == convertDocxToMarkdown(DocxPath(filePath), filePath, env)
        e1 == [NoEffects EXCEPT !.authenticate = 1, !.exec = conv.exec, !.mkdir = conv.mkdir,
                                !.steps = <<"authenticate", "convert">>]
        o2 == o1 \o conv.out
    IN  IF loaded.thrown # "none" THEN Run(d, loaded, o0, NoEffects)
        ELSE IF files = Undefined THEN Run(d, TypeErrorUndefined, o0, NoEffects)
        ELSE IF NotLinked(fileInfo)
        THEN Run(d, Return(Undefined),
                 o0 \o <<Line(NOT_LINKED, <<JStr(filePath)>>),
                         Line("  Run \"draftsync link <file> <gdoc-id>\" first", <<>>)>>,
                 NoEffects)
        ELSE IF DryRun(options)
        THEN Run(d, Return(Undefined), o0 \o PullPlan(filePath, fileInfo), NoEffects)
        ELSE IF ~ConversionOk(conv) THEN Caught(d, o2, e1, conv.ret)
        ELSE IF ~IsObj(fileInfo) THEN Caught(d, o2, e1, TypeErrorUndefined)
        ELSE Run(saveManifest(d, SetProp(manifest, "files",
                                  SetProp(files, filePath,
                                          SetProp(fileInfo, "lastSync", JDate(now))))),
                 Return(Undefined),
                 o2 \o <<Line("Converted to Markdown: ", <<JStr(filePath)>>),
                         Line("Successfully pulled ", <<JStr(filePath)>>)>>,
                 [e1 EXCEPT !.writeFile = 1, !.steps = @ \o <<"saveManifest">>])

\* new Date(lastSync).toLocaleString(): the local rendering of a date
LocaleString(v) ==
    IF "iso" \in DOMAIN v THEN [k |-> "string", locale |-> v.iso] ELSE JStr("Invalid Date")

\* the mutant of StatusEntries that lists the first entry alone
StatusEntries_first(files, ks) ==
    IF ks = <<>> THEN <<>>
    ELSE LET info == GetProp(files, Head(ks)) IN
         <<Line("  ", <<JStr(Head(ks))>>),
           Line("    Google Doc: ", <<GetProp(info, "gdocId")>>),
           Line("    Last sync:  ", <<LocaleString(GetProp(info, "lastSync"))>>),
           Line("    URL:        https://docs.google.com/document/d/", <<GetProp(info, "gdocId")>>),
           Line("", <<>>)>>

\* the five lines statusCommand prints for one entry
RECURSIVE StatusEntries(_, _)
StatusEntries(files, ks) ==
    IF ks = <<>> THEN <<>>
    ELSE LET info == GetProp(files, Head(ks)) IN
         <<Line("  ", <<JStr(Head(ks))>>),
           Line("    Google Doc: ", <<GetProp(info, "gdocId")>>),
           Line("    Last sync:  ", <<LocaleString(GetProp(info, "lastSync"))>>),
           Line("    URL:        https://docs.google.com/document/d/", <<GetProp(info, "gdocId")>>),
           Line("", <<>>)>>
         \o StatusEntries(files, Tail(ks))

NO_FILES_LINKED == "No files linked yet."

\* the mutant of statusCommand that saves the manifest it has loaded
statusCommand_save(d) ==
    LET o0 == <<Line("draftsync status", <<>>)>>
        loaded == loadManifest(d)
    IN  IF loaded.thrown # "none" THEN Run(d, loaded, o0, NoEffects)
        ELSE Run(saveManifest(d, loaded.v), Return(Undefined), o0,
                 [NoEffects EXCEPT !.writeFile = 1, !.steps = <<"saveManifest">>])

statusCommand(d) ==
    LET o0 == <<Line("draftsync status", <<>>)>>
        loaded == loadManifest(d)
        files == GetProp(loaded.v, "files")
    IN  IF loaded.thrown # "none" THEN Run(d, loaded, o0, NoEffects)
        ELSE IF files = Undefined THEN Run(d, TypeErrorUndefined, o0, NoEffects)
        ELSE IF Keys(files) = {}
        THEN Run(d, Return(Undefined),
                 o0 \o <<Line(NO_FILES_LINKED, <<>>),
                         Line("Run \"draftsync link <file> <gdoc-id>\" to link files.", <<>>)>>,
                 NoEffects)
        ELSE Run(d, Return(Undefined),
                 o0 \o <<Line("Linked files:", <<>>)>>
                    \o StatusEntries(files, SetToSeq(Keys(files))),
                 NoEffects)

----------------------------------------------------------------------------
(* build/epub.js and pandoc.js: check:epub *)

NonEmpty(line) == line # ""

\* pandoc.js validateEpub, given how `epubcheck "<path>"` ended in the shell: every
\* rejection of exec, whatever its cause, is turned into { valid: false, errors }
validateEpub(epubPath, run) ==
    LET o == <<Line("  Validating ...", <<JStr(epubPath)>>)>>
        command == << <<"epubcheck">>, Quoted(epubPath) >>
    IN  IF run.code = 0
        THEN Conversion(Return([valid |-> TRUE, errors |-> <<>>]),
                        o \o <<Line("  v EPUB is valid", <<>>)>>, <<command>>, <<>>)
        ELSE Conversion(Return([valid |-> FALSE, errors |-> SelectSeq(run.stderr, NonEmpty)]),
                        o, <<command>>, <<>>)

EPUB_VALID == "EPUB is valid"
EPUB_INVALID == "EPUB validation failed"
EPUBCHECK_MISSING == "epubcheck not installed"

\* the lines checkEpub prints when it finds that epubcheck is not installed
InstallEpubcheck ==
    <<Line(EPUBCHECK_MISSING, <<>>),
      Line("epubcheck is not installed.", <<>>),
      Line("Install epubcheck to validate EPUB files:", <<>>),
      Line("  Download from: https://github.com/w3c/epubcheck/releases", <<>>),
      Line("  Or install via: brew install epubcheck (macOS)", <<>>),
      Line("For now, try opening the EPUB in a reader to test it.", <<>>)>>

\* error.message.includes('epubcheck') && error.code === 'ENOENT'
IsEpubcheckENOENT(r) == r.thrown = "ENOENT"

\* build/epub.js checkEpub: env.exists says whether fs.access finds the file,
\* env.epubcheck how the epubcheck command ends
checkEpub(d, epubPath, env) ==
    LET o0 == <<Line("Validating EPUB: ", <<JStr(epubPath)>>), Line("Checking file", <<>>)>>
        result == validateEpub(epubPath, env.epubcheck)
        o1 == o0 \o <<Line("Found ", <<JStr(epubPath)>>), Line("Running epubcheck", <<>>)>>
                 \o result.out
        e == [NoEffects EXCEPT !.exec = result.exec]
    IN  IF ~env.exists
        THEN Run(d, Return(Undefined), o0 \o <<Line("File not found: ", <<JStr(epubPath)>>)>>,
                 NoEffects)
        ELSE IF result.ret.thrown # "none"
        THEN IF IsEpubcheckENOENT(result.ret)
             THEN Run(d, Return(Undefined), o1 \o InstallEpubcheck, e)
             ELSE Run(d, Return(Undefined),
                      o1 \o <<Line("Validation failed", <<>>),
                              Line("Error: ", result.ret.message)>>, e)
        ELSE IF result.ret.v.valid
        THEN Run(d, Return(Undefined),
                 o1 \o <<Line(EPUB_VALID, <<>>), Line("v Validation passed!", <<>>)>>, e)
        ELSE Run(d, Return(Undefined),
                 o1 \o <<Line(EPUB_INVALID, <<>>), Line("Validation errors:", <<>>)>>
                    \o [i \in DOMAIN result.ret.v.errors |->
                            Line("  ", <<JStr(result.ret.v.errors[i])>>)]
                    \o <<Line("", <<>>)>>, e)

----------------------------------------------------------------------------
(* Inputs *)

LocalPaths == {"content/ch1.md", "content/ch2.md"}
\* ids given to `draftsync link`; "" is what `link <file> ""` passes
GdocIds == {"", "abc123"}
\* 'stub_' + Math.random().toString(36).substring(7): the suffix may be empty
FakeIds == {"stub_k3x9"}
PandocStates == {"ok", "missing", "fails"}
Envs == [pandoc : PandocStates, fakeId : FakeIds]
OptStrings(S) == {Undefined} \cup {JStr(x) : x \in S}
\* every combination of options for a dry run; a real push ignores --folder-id
\* but for handing it to the createDoc stub, so there it comes with --refdoc or not at all
PushOptions ==
    {o \in [refdoc : OptStrings({"ref.docx"}), folderId : OptStrings({"folder-123"}),
            format : BOOLEAN, dryRun : BOOLEAN] :
        o.dryRun \/ (Truthy(o.folderId) <=> Truthy(o.refdoc))}
PullOptions == [dryRun : BOOLEAN]
\* a dry run with a source file pandoc can convert and with one it cannot (a file
\* that does not exist); a real run also with no pandoc installed
EnvsOf(o) == IF o.dryRun THEN {env \in Envs : env.pandoc # "missing"} ELSE Envs

\* the flat path -> id mappings of the unit tests, and a manifest as cli.js keeps it
Flat1 == JObj("content/ch1.md" :> JStr("fileId1"))
Flat2 == JObj("content/ch1.md" :> JStr("fileId2") @@ "content/ch2.md" :> JStr("fileId3"))
Flat3 == JObj("content/ch2.md" :> JStr("fileId2"))
Nested1 ==
    SetProp(InitialManifest, "files",
            JObj("content/ch1.md" :> FileEntry(JStr("id1"), 0)))
Mappings == {JObj(EmptyMap), Flat1, Flat2, Flat3, Nested1}

Prefixes(text) == {SubSeq(text, 1, n) : n \in 0..(Len(text) - 1)}

\* texts that are not JSON: the empty file, "{ invalid json" of the unit test, a
\* trailing comma, text after the value, and every truncation of an object's text
InvalidTexts ==
    {<<>>,
     <<LBRACE, StrTok("invalid json")>>,
     <<LBRACE, StrTok("a"), COLON, StrTok("x"), COMMA, RBRACE>>,
     <<LBRACE, RBRACE, RBRACE>>,
     <<StrTok("a"), COLON, StrTok("x")>>}
    \cup UNION {Prefixes(JSONstringify(m)) : m \in {Flat1, Flat2}}

\* JSON texts that JSON.stringify does not produce: a repeated key, a bare string
DuplicateKeyText ==
    <<LBRACE, StrTok("content/ch1.md"), COLON, StrTok("old"), COMMA,
      StrTok("content/ch1.md"), COLON, StrTok("new"), RBRACE>>
OddTexts == {DuplicateKeyText, <<StrTok("just a string")>>}

\* what an editor or a test's fs.writeFile may leave in a manifest file
RawTexts == InvalidTexts \cup OddTexts

----------------------------------------------------------------------------
(* The state machine *)

\* a process that has not been started
NotStarted == [pc |-> "idle", data |-> <<>>, cmd |-> NoCall, wrote |-> 0, seen |-> {}, overlap |-> FALSE]

Init ==
    /\ disk = [p \in Paths |-> Absent]
    /\ clock = 0
    /\ call = NoCall
    /\ ret = Return(Undefined)
    /\ out = <<>>
    /\ effects = NoEffects
    /\ pre = [p \in Paths |-> Absent]
    /\ written = [p \in Paths |-> <<>>]
    /\ writer = Idle
    /\ procs = [p \in Procs |-> NotStarted]

\* the latest writeManifest objects of a path survive only while nothing else
\* writes the path
Forget(d) == [p \in Paths |-> IF d[p] = disk[p] THEN written[p] ELSE <<>>]

\* one command run to completion
Do(c, run) ==
    /\ \E r \in {run} :
        /\ call' = c
        /\ pre' = disk
        /\ disk' = r.disk
        /\ ret' = r.ret
        /\ out' = r.out
        /\ effects' = r.effects
        /\ written' = Forget(r.disk)
    /\ UNCHANGED <<clock, writer, procs>>

\* time passes between two commands
Tick ==
    /\ clock < MaxClock
    /\ clock' = clock + 1
    /\ UNCHANGED <<disk, call, ret, out, effects, pre, written, writer, procs>>

InitCmd ==
    /\ writer.pc = "idle"
    /\ Do([op |-> "init"], initCommand(disk))

LinkCmd ==
    \E f \in LocalPaths, g \in GdocIds :
        /\ writer.pc = "idle"
        /\ Do([op |-> "link", filePath |-> f, gdocId |-> g, now |-> clock],
           linkCommand(disk, clock, f, g))

PushCmd ==
    \E f \in LocalPaths, o \in PushOptions : \E env \in EnvsOf(o) :
        /\ writer.pc = "idle"
        /\ Do([op |-> "push", options |-> o, filePath |-> f, env |-> env, now |-> clock],
           pushCommand(disk, clock, f, o, env))

PullCmd ==
    \E f \in LocalPaths, o \in PullOptions : \E env \in EnvsOf(o) :
        /\ writer.pc = "idle"
        /\ Do([op |-> "pull", options |-> o, filePath |-> f, env |-> env, now |-> clock],
           pullCommand(disk, clock, f, o, env))

StatusCmd ==
    /\ writer.pc = "idle"
    /\ Do([op |-> "status"], statusCommand(disk))

\* a caller of drive.js reads a manifest
ReadManifest ==
    \E p \in Paths :
        /\ call' = [writer |-> writer, op |-> "readManifest", manifestPath |-> p]
        /\ pre' = disk
        /\ ret' = readManifest(disk, p)
        /\ out' = <<>>
        /\ effects' = NoEffects
        /\ UNCHANGED <<disk, clock, written, writer, procs>>

\* a caller of drive.js writes a manifest, the write running to completion
WriteManifest ==
    \E p \in Paths, obj \in Mappings :
        /\ writer.pc = "idle"
        /\ call' = [op |-> "writeManifest", manifestPath |-> p, obj |-> obj]
        /\ pre' = disk
        /\ disk' = writeManifest(disk, obj, p)
        /\ ret' = Return(Undefined)
        /\ out' = <<>>
        /\ effects' = [NoEffects EXCEPT !.writeFile = 1]
        /\ written' = [written EXCEPT ![p] = <<obj>> \o (IF @ = <<>> THEN <<>> ELSE <<Head(@)>>)]
        /\ UNCHANGED <<clock, writer, procs>>

\* somebody else writes a file: an editor, a test's fs.writeFile
EditFile(p, texts) ==
    \E text \in texts :
        /\ writer.pc = "idle"
        /\ Do([op |-> "edit", path |-> p],
              Run(fsWriteFile(disk, p, text), Return(Undefined), <<>>, NoEffects))

\* somebody removes a file
RemoveFile(p) ==
    /\ writer.pc = "idle"
    /\ disk[p].exists
    /\ Do([op |-> "remove", path |-> p],
          Run([disk EXCEPT ![p] = Absent], Return(Undefined), <<>>, NoEffects))

\* manifests a user may leave behind by hand: broken JSON, or JSON without `files`
HandEdits ==
    {<<LBRACE>>, JSONstringify(JObj(EmptyMap))}

\* the command line tool over the manifest file of the working directory
Next ==
    \/ Tick
    \/ InitCmd
    \/ LinkCmd
    \/ PushCmd
    \/ PullCmd
    \/ StatusCmd
    \/ ReadManifest
    \/ EditFile(MANIFEST_FILE, HandEdits)
    \/ RemoveFile(MANIFEST_FILE)

Spec == Init /\ [][Next]_vars

\* the manifest store of drive.js, called with any path
EditAnyFile == \E p \in Paths : EditFile(p, RawTexts)
RemoveAnyFile == \E p \in Paths : RemoveFile(p)

NextStore ==
    \/ ReadManifest
    \/ WriteManifest
    \/ EditAnyFile
    \/ RemoveAnyFile

SpecStore == Init /\ [][NextStore]_vars

----------------------------------------------------------------------------
(* fs.writeFile step by step, with a reader of the same file *)

\* the objects written while a reader looks on
WriteObjects == {JObj(EmptyMap), Flat1, Flat2}

Step(c) ==
    /\ call' = c
    /\ pre' = disk
    /\ ret' = Return(Undefined)
    /\ out' = <<>>
    /\ effects' = NoEffects
    /\ UNCHANGED <<clock, procs>>

\* open(path, 'w'): the file is created, or truncated to length 0
WriteOpen ==
    \E obj \in WriteObjects :
        /\ writer.pc \in {"idle", "interrupted"}
        /\ disk' = [disk EXCEPT ![MANIFEST_FILE] = File(<<>>)]
        /\ writer' = [pc |-> "writing", manifestPath |-> MANIFEST_FILE, obj |-> obj,
                      data |-> JSONstringify(obj), before |-> disk[MANIFEST_FILE]]
        /\ written' = [written EXCEPT ![MANIFEST_FILE] = <<>>]
        /\ Step([op |-> "open", manifestPath |-> MANIFEST_FILE])

\* write(fd, ...): some more of the text reaches the file
WriteChunk ==
    /\ writer.pc = "writing"
    /\ LET p == writer.manifestPath
           done == Len(disk[p].text)
       IN  \E n \in 1..(Len(writer.data) - done) :
               disk' = [disk EXCEPT ![p] = File(SubSeq(writer.data, 1, done + n))]
    /\ Step([op |-> "write", manifestPath |-> writer.manifestPath])
    /\ UNCHANGED <<writer, written>>

\* close(fd): writeManifest's promise resolves
WriteClose ==
    /\ writer.pc = "writing"
    /\ disk[writer.manifestPath].text = writer.data
    /\ writer' = Idle
    /\ written' = [written EXCEPT ![writer.manifestPath] = <<writer.obj>>]
    /\ Step([op |-> "close", manifestPath |-> writer.manifestPath])
    /\ UNCHANGED disk

\* the writing process is killed
Interrupt ==
    /\ writer.pc = "writing"
    /\ writer' = [writer EXCEPT !.pc = "interrupted"]
    /\ Step([op |-> "kill", manifestPath |-> writer.manifestPath])
    /\ UNCHANGED <<disk, written>>

NextWrite ==
    \/ WriteOpen
    \/ WriteChunk
    \/ WriteClose
    \/ Interrupt
    \/ ReadManifest

SpecWrite == Init /\ [][NextWrite]_vars

----------------------------------------------------------------------------
(* pandoc.js called on its own *)

MdPaths == {"a.md", "content/ch1.md"}
DocxPaths == {"a.docx", "dist/ch1.docx"}
\* the refdoc argument: omitted, null, "" and a path
Refdocs == {Undefined, Null, JStr(""), JStr("ref.docx")}
\* what spawnSync reports: status null when the process did not start or was killed
Statuses == {Null, Undefined, JNum(0), JNum(1), JNum(2), JNum(42), JNum(127)}
\* the code of result.error when the binary is not on the PATH
ENOENT == JStr("ENOENT")
\* a process that ran (or was killed) has no error; one that could not be started has
\* status null, no output and the error
SpawnResults ==
    {[status |-> st, stdout |-> o, stderr |-> o, error |-> Undefined] :
        st \in Statuses, o \in {Null, JStr("text")}}
    \cup {[status |-> Null, stdout |-> Null, stderr |-> Null, error |-> ENOENT]}
ArgLists ==
    {buildMdToDocxArgs(m, d, r) : m \in MdPaths, d \in DocxPaths, r \in {Null, JStr("ref.docx")}}

Pure(c, r, spawns) ==
    /\ call' = c
    /\ pre' = disk
    /\ ret' = r
    /\ out' = <<>>
    /\ effects' = [NoEffects EXCEPT !.spawnSync = spawns]
    /\ UNCHANGED <<disk, clock, written, writer, procs>>

BuildMdToDocxArgs ==
    \E m \in MdPaths, d \in DocxPaths, r \in Refdocs :
        Pure([op |-> "buildMdToDocxArgs", mdPath |-> m, outDocx |-> d, refdoc |-> r],
             Return(buildMdToDocxArgs(m, d, r)), <<>>)

BuildDocxToMdArgs ==
    \E d \in DocxPaths, m \in MdPaths :
        Pure([op |-> "buildDocxToMdArgs", docxPath |-> d, outMd |-> m],
             Return(buildDocxToMdArgs(d, m)), <<>>)

RunPandoc ==
    \E args \in ArgLists, sp \in SpawnResults :
        Pure([op |-> "runPandoc", args |-> args, spawned |-> sp],
             Return(JObj(runPandoc(args, sp))), <<SpawnCall(args)>>)

MdToDocx ==
    \E m \in MdPaths, d \in DocxPaths, r \in Refdocs, sp \in SpawnResults :
        \E run \in {mdToDocx(m, d, r, sp)} :
            Pure([op |-> "mdToDocx", mdPath |-> m, outDocx |-> d, refdoc |-> r, spawned |-> sp],
                 run.ret, run.spawnSync)

DocxToMd ==
    \E d \in DocxPaths, m \in MdPaths, sp \in SpawnResults :
        \E run \in {docxToMd(d, m, sp)} :
            Pure([op |-> "docxToMd", docxPath |-> d, outMd |-> m, spawned |-> sp],
                 run.ret, run.spawnSync)

NextPandoc ==
    \/ BuildMdToDocxArgs
    \/ BuildDocxToMdArgs
    \/ RunPandoc
    \/ MdToDocx
    \/ DocxToMd

SpecPandoc == Init /\ [][NextPandoc]_vars

----------------------------------------------------------------------------
(* docs.js called on its own *)

\* options.marginsInch: left out, or a number of inches
MarginsInch == {Undefined} \cup {JNum(n) : n \in 0..5}
\* options.doubleSpacing: left out, null, or a boolean
DoubleSpacings == {Undefined, Null, JBool(TRUE), JBool(FALSE)}
\* options.headerText: left out, null, "" or a text
HeaderTexts == {Undefined, Null, JStr(""), JStr("Surname / Title")}

\* the options object with the properties that are not left out
OptionsOf(mi, ds, ht) ==
    LET all == [q \in {"marginsInch", "doubleSpacing", "headerText"} |->
                   IF q = "marginsInch" THEN mi ELSE IF q = "doubleSpacing" THEN ds ELSE ht]
        given == {q \in DOMAIN all : all[q] # Undefined}
    IN  JObj([q \in given |-> all[q]])

\* buildHouseStyleRequests() and buildHouseStyleRequests({...})
StyleOptions ==
    {Undefined} \cup {OptionsOf(mi, ds, ht) : mi \in MarginsInch, ds \in DoubleSpacings, ht \in HeaderTexts}

BuildHouseStyleRequests ==
    \E o \in StyleOptions :
        /\ writer.pc = "idle"
        /\ Pure([op |-> "buildHouseStyleRequests", options |-> o],
                Return(buildHouseStyleRequests(o)), <<>>)

NextDocs == BuildHouseStyleRequests

SpecDocs == Init /\ [][NextDocs]_vars

----------------------------------------------------------------------------
(* two invocations at the same time on one manifest file *)

\* the commands of the two invocations
RaceCmds ==
    {[op |-> "init"]} \cup {[op |-> "link", filePath |-> f, gdocId |-> "abc123"] : f \in LocalPaths}

\* the command run alone on the file system d
RunAlone(cmd, d) ==
    IF cmd.op = "init" THEN initCommand(d) ELSE linkCommand(d, clock, cmd.filePath, cmd.gdocId)

\* the mutant of Truncate that opens the file without O_TRUNC
Truncate_keep(f) == File(f.text)

\* open(path, 'w'): the file is created, or truncated to length 0
Truncate(f) == File(<<>>)

\* write(fd, data) at position 0 of a file that holds old
WriteAt(old, data) == data \o Drop(old, Len(data))

\* the process is started with its command line
Begin(p) ==
    \E cmd \in RaceCmds :
        /\ procs[p].pc = "idle"
        /\ procs' = [procs EXCEPT ![p].pc = "started", ![p].cmd = cmd]
        /\ UNCHANGED <<disk, clock, call, ret, out, effects, pre, written, writer>>

\* loadManifest and the change in memory (init builds its manifest without reading):
\* the text that saveManifest will write, or the error thrown by loadManifest
Load(p) ==
    /\ procs[p].pc = "started"
    /\ LET run == RunAlone(procs[p].cmd, disk) IN
        procs' = [procs EXCEPT ![p] =
                     IF run.ret.thrown # "none" THEN [@ EXCEPT !.pc = "failed"]
                     ELSE [@ EXCEPT !.pc = "loaded",
                                    !.data = run.disk[MANIFEST_FILE].text,
                                    !.seen = {q \in Procs : procs[q].pc = "done"}]]
    /\ UNCHANGED <<disk, clock, call, ret, out, effects, pre, written, writer>>

\* saveManifest, first half: fs.writeFile opens the file
Open(p) ==
    /\ procs[p].pc = "loaded"
    /\ disk' = [disk EXCEPT ![MANIFEST_FILE] = Truncate(@)]
    /\ procs' = [procs EXCEPT ![p].pc = "opened",
                              ![p].overlap = \E q \in Procs : procs[q].pc = "opened"]
    /\ written' = [written EXCEPT ![MANIFEST_FILE] = <<>>]
    /\ UNCHANGED <<clock, call, ret, out, effects, pre, writer>>

\* saveManifest, second half: fs.writeFile writes the text and closes the file
Write(p) ==
    /\ procs[p].pc = "opened"
    /\ disk' = [disk EXCEPT ![MANIFEST_FILE] = File(WriteAt(@.text, procs[p].data))]
    /\ procs' = [procs EXCEPT ![p].pc = "done",
                              ![p].wrote = 1 + Cardinality({q \in Procs : procs[q].pc = "done"})]
    /\ UNCHANGED <<clock, call, ret, out, effects, pre, written, writer>>

NextRace ==
    \E p \in Procs :
        \/ Begin(p)
        \/ Load(p)
        \/ Open(p)
        \/ Write(p)

SpecRace == Init /\ [][NextRace]_vars

----------------------------------------------------------------------------
(* check:epub on its own *)

EpubPaths == {"dist/book.epub", "book.epub"}

\* the lines epubcheck and the shell write to stderr
EpubcheckLines == {"", "ERROR(RSC-005): Error while parsing file", "FATAL(PKG-008): Unable to read file"}
MaxErrLines == 3
ErrorOutputs == UNION {[1..n -> EpubcheckLines] : n \in 0..MaxErrLines}

\* how `epubcheck "<path>"` ends: the book is valid (exit status 0), the book has
\* errors (exit status 1, the messages on stderr), or the shell finds no epubcheck
\* (exit status 127)
EpubcheckRuns ==
    {[stderr |-> <<>>, code |-> 0, found |-> TRUE]}
    \cup {[stderr |-> e, code |-> 1, found |-> TRUE] : e \in ErrorOutputs}
    \cup {[stderr |-> <<"/bin/sh: 1: epubcheck: not found">>, code |-> 127, found |-> FALSE]}

EpubEnvs == [exists : BOOLEAN, epubcheck : EpubcheckRuns]

ValidateEpub ==
    \E f \in EpubPaths, run \in EpubcheckRuns :
        \E result \in {validateEpub(f, run)} :
            /\ writer.pc = "idle"
            /\ Do([op |-> "validateEpub", env |-> [exists |-> TRUE, epubcheck |-> run], epubPath |-> f],
                  Run(disk, result.ret, result.out, [NoEffects EXCEPT !.exec = result.exec]))

CheckEpub ==
    \E f \in EpubPaths, env \in EpubEnvs :
        /\ writer.pc = "idle"
        /\ Do([op |-> "check:epub", env |-> env, epubPath |-> f], checkEpub(disk, f, env))

NextEpub ==
    \/ ValidateEpub
    \/ CheckEpub

SpecEpub == Init /\ [][NextEpub]_vars

----------------------------------------------------------------------------
(* Properties of the manifest store *)

Range(seq) == {seq[i] : i \in DOMAIN seq}

\* the path of the last readManifest call
ReadPath == call.manifestPath

\* C1: a readManifest of a path returns, without throwing, an object equal to the
\* one the latest writeManifest wrote to that path, whatever the file held before,
\* as long as nothing else wrote the file in between.
RoundTrip ==
    (call.op = "readManifest" /\ written[ReadPath] # <<>>)
        => ret = Return(Head(written[ReadPath]))

\* a nested manifest has been written over another file and read back
RoundTripWitness ==
    /\ call.op = "readManifest"
    /\ written[ReadPath] = <<Nested1, Flat2>>
    /\ ret.v = Nested1

\* C3: readManifest of an existing file whose text is not JSON throws the
\* SyntaxError of JSON.parse (the spec's ManifestParseError) to its caller and
\* returns no value, the empty mapping included.
MalformedThrows ==
    (call.op = "readManifest" /\ pre[ReadPath].exists /\ pre[ReadPath].text \in InvalidTexts)
        => (ret.thrown = "SyntaxError" /\ ret.v = Undefined)

\* the unit test's "{ invalid json" has been read
MalformedThrowsWitness ==
    /\ call.op = "readManifest"
    /\ pre[ReadPath] = File(<<LBRACE, StrTok("invalid json")>>)
    /\ ret.thrown = "SyntaxError"

\* the number of times key k is a member name at the top level of a JSON text
Depth(text, i) ==
    Cardinality({j \in 1..(i - 1) : text[j] = LBRACE})
    - Cardinality({j \in 1..(i - 1) : text[j] = RBRACE})
KeyCount(text, key) ==
    Cardinality({i \in 1..(Len(text) - 1) :
                    text[i] = StrTok(key) /\ text[i + 1] = COLON /\ Depth(text, i) = 1})

\* C4: after writeManifest(M1, p) and then writeManifest(M2, p), readManifest(p)
\* returns M2: no key that only M1 has, M2's value for a key of both, and the
\* file names each key of M2 once.
FullReplace ==
    (call.op = "readManifest" /\ Len(written[ReadPath]) = 2)
        => LET M2 == written[ReadPath][1]
               M1 == written[ReadPath][2]
           IN  /\ ret = Return(M2)
               /\ \A key \in Keys(M1) \ Keys(M2) : key \notin Keys(ret.v)
               /\ \A key \in Keys(M1) \cap Keys(M2) : GetProp(ret.v, key) = GetProp(M2, key)
               /\ \A key \in Keys(M1) \cup Keys(M2) :
                      KeyCount(disk[ReadPath].text, key) = IF key \in Keys(M2) THEN 1 ELSE 0

\* M1 = {ch1: fileId2, ch2: fileId3}, M2 = {ch2: fileId2}: a key dropped, a key changed
FullReplaceWitness ==
    /\ call.op = "readManifest"
    /\ written[ReadPath] = <<Flat3, Flat2>>
    /\ Keys(ret.v) = {"content/ch2.md"}

----------------------------------------------------------------------------
(* Properties of the command line tool *)

\* the run of the last command, and the same command on another file system
LastRun == Run(disk, ret, out, effects)
RunOf(c, d) ==
    CASE c.op = "link" -> linkCommand(d, c.now, c.filePath, c.gdocId)
      [] c.op = "push" -> pushCommand(d, c.now, c.filePath, c.options, c.env)
      [] c.op = "pull" -> pullCommand(d, c.now, c.filePath, c.options, c.env)
      [] c.op = "status" -> statusCommand(d)

WithManifest(d, manifest) == [d EXCEPT ![MANIFEST_FILE] = File(JSONstringify(manifest))]
\* the `files` member of the manifest file
FilesOf(d) == GetProp(JSONparse(d[MANIFEST_FILE].text).v, "files")
NoFiles == JObj("files" :> JObj(EmptyMap))

\* the linked files a manifest file stands for: none when there is no file
LinkedFiles(d) == IF d[MANIFEST_FILE].exists THEN FilesOf(d) ELSE JObj(EmptyMap)

\* the last command ended, printed and called what `other` did, wrote the
\* manifest if and only if `other` did, and left the same linked files
SameAs(other, otherPre) ==
    /\ <<ret, out, effects>> = <<other.ret, other.out, other.effects>>
    /\ (disk = pre) = (other.disk = otherPre)
    /\ LinkedFiles(disk) = LinkedFiles(other.disk)

\* C2: readManifest of a path with no file returns the empty mapping and does not
\* throw; link, push, pull and status with no manifest file do what they do with
\* a manifest that has no linked files (an empty `files`, alone or as init writes
\* it): the same outcome, output, calls and resulting linked files, a manifest
\* written by the one is the manifest written by the other, status reports that
\* no files are linked and pull that the file is not linked.
MissingIsEmpty ==
    /\ (call.op = "readManifest" /\ ~pre[ReadPath].exists)
           => ret = Return(JObj(EmptyMap))
    /\ (call.op \in {"link", "push", "pull", "status"} /\ ~pre[MANIFEST_FILE].exists)
           => /\ SameAs(RunOf(call, WithManifest(pre, NoFiles)), WithManifest(pre, NoFiles))
              /\ SameAs(RunOf(call, WithManifest(pre, InitialManifest)),
                        WithManifest(pre, InitialManifest))
              /\ disk # pre => disk = RunOf(call, WithManifest(pre, NoFiles)).disk
              /\ ret.thrown = "none"
              /\ call.op = "status" => Line(NO_FILES_LINKED, <<>>) \in Range(out)
              /\ call.op = "pull" => Line(NOT_LINKED, <<JStr(call.filePath)>>) \in Range(out)

\* link has created the manifest file
MissingIsEmptyWitness ==
    /\ call.op = "link"
    /\ ~pre[MANIFEST_FILE].exists
    /\ disk[MANIFEST_FILE].exists
    /\ Keys(FilesOf(disk)) = {call.filePath}

\* a manifest as the commands keep it: no file, or JSON with a `files` object
HasFiles(file) == ~file.exists \/ IsObj(GetProp(JSONparse(file.text).v, "files"))
\* the entry of a path in a manifest file holds a remote id: a non-empty gdocId
HasRemoteId(file, filePath) ==
    /\ file.exists
    /\ LET entry == GetProp(GetProp(JSONparse(file.text).v, "files"), filePath) IN
           /\ "gdocId" \in Keys(entry)
           /\ entry.m["gdocId"] \notin {JStr(""), Undefined, Null}

\* C10: pull of a path whose manifest entry is missing or has no remote id prints
\* the not-linked error and the advice to run link, in dry-run and in real mode,
\* and stops there: no authenticate, no conversion, no createDoc, no write, no
\* plan, and the manifest file is left as it was.
PullNotLinked ==
    (call.op = "pull" /\ HasFiles(pre[MANIFEST_FILE])
                      /\ ~HasRemoteId(pre[MANIFEST_FILE], call.filePath))
        => /\ out = <<Line("Pulling from Google Docs...", <<JStr(call.filePath)>>),
                      Line(NOT_LINKED, <<JStr(call.filePath)>>),
                      Line("  Run \"draftsync link <file> <gdoc-id>\" first", <<>>)>>
           /\ effects = NoEffects
           /\ disk = pre

\* a real pull of a path linked with an empty id, next to a linked path
PullNotLinkedWitness ==
    /\ call.op = "pull"
    /\ ~call.options.dryRun
    /\ pre[MANIFEST_FILE].exists
    /\ HasFiles(pre[MANIFEST_FILE])
    /\ Keys(FilesOf(pre)) = LocalPaths
    /\ ~HasRemoteId(pre[MANIFEST_FILE], call.filePath)
    /\ Line(NOT_LINKED, <<JStr(call.filePath)>>) \in Range(out)

----------------------------------------------------------------------------
(* Properties of a write in progress *)

\* the file held nothing, or the whole text of an object, when the write began
CompleteBefore(w) ==
    w.before \in {Absent} \cup {File(JSONstringify(obj)) : obj \in WriteObjects}

\* what readManifest gives when the file is as it was before the write
ReadBefore(w) == readManifest([pre EXCEPT ![w.manifestPath] = w.before], w.manifestPath)

\* C5: a readManifest of the path that runs while writeManifest is writing it, or
\* after the writer was killed, gives what the complete previous content gives or
\* the complete new object, never the outcome of an empty or truncated file.
AtomicOverwrite ==
    (/\ call.op = "readManifest"
     /\ call.writer.pc \in {"writing", "interrupted"}
     /\ call.manifestPath = call.writer.manifestPath
     /\ CompleteBefore(call.writer))
        => ret \in {ReadBefore(call.writer), Return(call.writer.obj)}

----------------------------------------------------------------------------
(* Properties of pandoc.js *)

\* the last call read and changed nothing and spawned no process
NothingElse == disk = pre /\ effects = NoEffects /\ out = <<>>

\* C6: with refdoc omitted or null buildMdToDocxArgs returns exactly
\* [mdPath, "-o", outDocx], without "--reference-doc"; buildDocxToMdArgs returns
\* exactly [docxPath, "-o", outMd] for all inputs; neither touches anything else.
BaseArgs ==
    /\ (call.op = "buildMdToDocxArgs" /\ call.refdoc \in {Undefined, Null})
           => /\ ret = Return(JArr(<<call.mdPath, "-o", call.outDocx>>))
              /\ "--reference-doc" \notin Range(ret.v.a)
              /\ NothingElse
    /\ call.op = "buildDocxToMdArgs"
           => /\ ret = Return(JArr(<<call.docxPath, "-o", call.outMd>>))
              /\ NothingElse

\* buildMdToDocxArgs was called with null and returned three arguments
BaseArgsWitness ==
    /\ call.op = "buildMdToDocxArgs"
    /\ call.refdoc = Null
    /\ ret.thrown = "none"
    /\ Len(ret.v.a) = 3
    /\ ret.v.a[2] = "-o"

\* C7 as stated: for every string refdoc, the empty string included,
\* buildMdToDocxArgs returns [mdPath, "-o", outDocx, "--reference-doc", refdoc].
RefdocAnyString ==
    (call.op = "buildMdToDocxArgs" /\ call.refdoc \notin {Undefined, Null})
        => ret = Return(JArr(<<call.mdPath, "-o", call.outDocx,
                               "--reference-doc", call.refdoc.s>>))

\* C7: for every non-empty string refdoc buildMdToDocxArgs returns exactly
\* [mdPath, "-o", outDocx, "--reference-doc", refdoc], the flag and the path after
\* the three base arguments; for the empty string it returns the three base
\* arguments alone, as for null.
RefdocNonEmpty ==
    call.op = "buildMdToDocxArgs" =>
        /\ (call.refdoc \notin {Undefined, Null, JStr("")})
               => ret = Return(JArr(<<call.mdPath, "-o", call.outDocx,
                                      "--reference-doc", call.refdoc.s>>))
        /\ call.refdoc = JStr("")
               => ret = Return(JArr(<<call.mdPath, "-o", call.outDocx>>))

\* buildMdToDocxArgs was called with a path and returned five arguments
RefdocNonEmptyWitness ==
    /\ call.op = "buildMdToDocxArgs"
    /\ call.refdoc = JStr("ref.docx")
    /\ ret.thrown = "none"
    /\ Len(ret.v.a) = 5
    /\ ret.v.a[5] = "ref.docx"

\* C8: runPandoc returns the status spawnSync reported when that is a number and
\* 1 when it is null or undefined; the status returned is always a number, and
\* it is 0 only when the process exited with 0.
StatusNormalised ==
    call.op = "runPandoc" =>
        LET status == ret.v.m.status IN
        /\ ret.thrown = "none"
        /\ call.spawned.status \notin {Null, Undefined} => status = call.spawned.status
        /\ call.spawned.status \in {Null, Undefined} => status = JNum(1)
        /\ status.k = "number"
        /\ status = JNum(0) => call.spawned.status = JNum(0)
        /\ effects.spawnSync = <<SpawnCall(call.args)>>

\* runPandoc was called for a process that reported no status and returned 1
StatusNormalisedWitness ==
    /\ call.op = "runPandoc"
    /\ call.spawned.status = Null
    /\ ret.thrown = "none"
    /\ ret.v.m.status = JNum(1)

\* the arguments and the label of the last conversion call
ConvertArgs ==
    IF call.op = "mdToDocx" THEN buildMdToDocxArgs(call.mdPath, call.outDocx, call.refdoc)
    ELSE buildDocxToMdArgs(call.docxPath, call.outMd)
ConvertLabel == IF call.op = "mdToDocx" THEN MD_TO_DOCX ELSE DOCX_TO_MD
NormalisedStatus == Nullish(call.spawned.status, JNum(1))

\* C9: mdToDocx and docxToMd spawn pandoc exactly once, with the arguments of
\* buildMdToDocxArgs resp. buildDocxToMdArgs; they return undefined exactly when
\* the normalised status is 0 and otherwise throw an Error whose message holds
\* their direction label and the normalised status; there is no second spawn.
ConvertOnce ==
    call.op \in {"mdToDocx", "docxToMd"} =>
        /\ effects.spawnSync = <<SpawnCall(ConvertArgs)>>
        /\ Len(effects.spawnSync) = 1
        /\ (ret = Return(Undefined)) = (NormalisedStatus = JNum(0))
        /\ NormalisedStatus # JNum(0)
               => /\ ret.thrown = "Error"
                  /\ JStr(ConvertLabel) \in Range(ret.message)
                  /\ NormalisedStatus \in Range(ret.message)
                  /\ JStr(IF call.op = "mdToDocx" THEN DOCX_TO_MD ELSE MD_TO_DOCX)
                         \notin Range(ret.message)
        /\ disk = pre

\* docxToMd threw for a pandoc that exited with 42
ConvertOnceWitness ==
    /\ call.op = "docxToMd"
    /\ call.spawned.status = JNum(42)
    /\ ret.thrown = "Error"
    /\ Len(effects.spawnSync) = 1

----------------------------------------------------------------------------
(* Properties of the dry runs *)

\* C11: a push or pull with --dry-run runs no pandoc command, spawns nothing,
\* does not authenticate, calls neither createDoc nor formatDocument, makes no
\* directory and does not write the manifest: the files are after the run what
\* they were before it, whatever the manifest file held and whatever the options.
DryRunPure ==
    (call.op \in {"push", "pull"} /\ call.options.dryRun)
        => /\ effects = NoEffects
           /\ disk = pre

\* a pull --dry-run of a linked path printed its plan
DryRunPureWitness ==
    /\ call.op = "pull"
    /\ call.options.dryRun
    /\ HasRemoteId(pre[MANIFEST_FILE], call.filePath)
    /\ Line("[DRY RUN] Would perform the following steps:", <<>>) \in Range(out)
    /\ disk = pre

\* C12: push --dry-run returns normally (exit status 0) whether pandoc could
\* convert the source file or not, whether the path is linked or not and whatever
\* the manifest file holds, even nothing parseable: it ends and prints as it does
\* with no manifest file at all, and reads and touches nothing.
PushDryRunSucceeds ==
    (call.op = "push" /\ call.options.dryRun)
        => /\ ret = Return(Undefined)
           /\ effects = NoEffects
           /\ disk = pre
           /\ LET bare == RunOf(call, [p \in Paths |-> Absent])
                  able == RunOf([call EXCEPT !.env.pandoc = "ok"], pre)
              IN  /\ <<ret, out>> = <<bare.ret, bare.out>>
                  /\ <<ret, out>> = <<able.ret, able.out>>

\* a push --dry-run of an unlinked path whose source pandoc cannot convert
PushDryRunSucceedsWitness ==
    /\ call.op = "push"
    /\ call.options.dryRun
    /\ call.env.pandoc = "fails"
    /\ pre[MANIFEST_FILE].exists
    /\ HasFiles(pre[MANIFEST_FILE])
    /\ ~HasRemoteId(pre[MANIFEST_FILE], call.filePath)
    /\ ret = Return(Undefined)

\* the number of the plan step a console line reports, 0 for any other line
StepOf(line) ==
    CASE line.msg = "  1. Read Markdown file" -> 1
      [] line.msg = "  2. Would convert MD -> DOCX using Pandoc" -> 2
      [] line.msg = "  3. Would apply reference document: " -> 3
      [] line.msg = "  4. Would authenticate with Google API" -> 4
      [] line.msg = "  5. Would create Google Doc in folder: " -> 5
      [] line.msg = "  5. Would create Google Doc in root" -> 5
      [] line.msg = "  6. Would apply formatting (double-space, margins, headers)" -> 6
      [] OTHER -> 0

\* the step numbers of the lines printed after the plan's header
PlanSteps == [i \in 1..(Len(out) - 2) |-> StepOf(out[i + 2])]

\* C13: push --dry-run prints, after its header, the steps of its plan in
\* increasing order and nothing else: steps 1, 2, 4 and 5 always, step 3 (with
\* the reference document) exactly when --refdoc is given, step 6 exactly when
\* --format is given, and step 5 names the folder exactly when --folder-id is given.
PlanOrder ==
    (call.op = "push" /\ call.options.dryRun)
        => /\ Len(out) >= 2
           /\ out[2] = Line("[DRY RUN] Would perform the following steps:", <<>>)
           /\ \A i \in DOMAIN PlanSteps : PlanSteps[i] # 0
           /\ \A i, j \in DOMAIN PlanSteps : i < j => PlanSteps[i] < PlanSteps[j]
           /\ {1, 2, 4, 5} \subseteq Range(PlanSteps)
           /\ (3 \in Range(PlanSteps)) = Truthy(call.options.refdoc)
           /\ Truthy(call.options.refdoc)
                  => Line("  3. Would apply reference document: ", <<call.options.refdoc>>)
                         \in Range(out)
           /\ (6 \in Range(PlanSteps)) = call.options.format
           /\ (Line("  5. Would create Google Doc in folder: ", <<call.options.folderId>>)
                   \in Range(out)) = Truthy(call.options.folderId)
           /\ (Line("  5. Would create Google Doc in root", <<>>) \in Range(out))
                  = ~Truthy(call.options.folderId)

\* a push --dry-run with --refdoc, --folder-id and --format printed six steps
PlanOrderWitness ==
    /\ call.op = "push"
    /\ call.options.dryRun
    /\ Truthy(call.options.refdoc)
    /\ Truthy(call.options.folderId)
    /\ call.options.format
    /\ PlanSteps = <<1, 2, 3, 4, 5, 6>>

----------------------------------------------------------------------------
(* Properties of link and status *)

\* the remote id of every entry of a `files` object
RemoteIds(files) == [p \in Keys(files) |-> GetProp(files.m[p], "gdocId")]

\* C14: link of a path to an id returns normally whether the manifest file is
\* absent or holds a `files` object, with the path unlinked or linked to any id;
\* afterwards the manifest file maps the path to that id and the time of the
\* call, every other entry is what it was, and the same link run again at any
\* time leaves the same paths with the same ids.
LinkSucceeds ==
    (call.op = "link" /\ HasFiles(pre[MANIFEST_FILE]))
        => /\ ret = Return(Undefined)
           /\ disk[MANIFEST_FILE].exists
           /\ JSONparse(disk[MANIFEST_FILE].text).thrown = "none"
           /\ Keys(FilesOf(disk)) = Keys(LinkedFiles(pre)) \cup {call.filePath}
           /\ FilesOf(disk).m[call.filePath] = FileEntry(JStr(call.gdocId), call.now)
           /\ \A p \in Keys(LinkedFiles(pre)) \ {call.filePath} :
                  FilesOf(disk).m[p] = LinkedFiles(pre).m[p]
           /\ \A later \in call.now..MaxClock :
                  LET again == RunOf([call EXCEPT !.now = later], disk) IN
                      /\ again.ret = Return(Undefined)
                      /\ RemoteIds(FilesOf(again.disk)) = RemoteIds(FilesOf(disk))
                      /\ later = call.now => again.disk = disk

\* a path linked to one id was linked to another id
LinkSucceedsWitness ==
    /\ call.op = "link"
    /\ HasRemoteId(pre[MANIFEST_FILE], call.filePath)
    /\ GetProp(FilesOf(pre).m[call.filePath], "gdocId") # JStr(call.gdocId)
    /\ GetProp(FilesOf(disk).m[call.filePath], "gdocId") = JStr(call.gdocId)
    /\ Keys(FilesOf(disk)) = LocalPaths

\* the lines at positions i, i+1, i+2 of a status output report path p with
\* the id and the last synchronisation of entry info
ReportsAt(o, i, p, info) ==
    /\ i + 2 <= Len(o)
    /\ o[i] = Line("  ", <<JStr(p)>>)
    /\ o[i + 1] = Line("    Google Doc: ", <<GetProp(info, "gdocId")>>)
    /\ o[i + 2] = Line("    Last sync:  ", <<LocaleString(GetProp(info, "lastSync"))>>)

\* the positions of the lines of a status output that name a path
PathLines(o) == {i \in DOMAIN o : o[i].msg = "  "}

\* C15: status of a manifest that is absent or holds a `files` object reports
\* each path of `files` once, with the entry's id and last synchronisation, and no
\* other path; it prints that no files are linked exactly when `files` is empty;
\* and right after a link the status of the manifest reports the path with the id.
StatusReports ==
    /\ (call.op = "status" /\ HasFiles(pre[MANIFEST_FILE]))
           => LET files == LinkedFiles(pre) IN
              /\ ret = Return(Undefined)
              /\ (Line(NO_FILES_LINKED, <<>>) \in Range(out)) = (Keys(files) = {})
              /\ Cardinality(PathLines(out)) = Cardinality(Keys(files))
              /\ \A i \in PathLines(out) : out[i].args[1].s \in Keys(files)
              /\ \A p \in Keys(files) : \E i \in PathLines(out) : ReportsAt(out, i, p, files.m[p])
    /\ (call.op = "link" /\ ret = Return(Undefined))
           => LET o == statusCommand(disk).out IN
              \E i \in PathLines(o) :
                  ReportsAt(o, i, call.filePath, FileEntry(JStr(call.gdocId), call.now))

\* status listed two linked paths
StatusReportsWitness ==
    /\ call.op = "status"
    /\ HasFiles(pre[MANIFEST_FILE])
    /\ Keys(LinkedFiles(pre)) = LocalPaths
    /\ Cardinality(PathLines(out)) = 2

\* C16: status writes nothing, whatever the manifest file holds and also when
\* there is none: the files, and with them every entry's id and last
\* synchronisation, are after the run what they were before it.
StatusReadOnly ==
    call.op = "status"
        => /\ disk = pre
           /\ effects = NoEffects

\* status ran with no manifest file and left none
StatusReadOnlyWitness ==
    /\ call.op = "status"
    /\ ~pre[MANIFEST_FILE].exists
    /\ ~disk[MANIFEST_FILE].exists
    /\ ret = Return(Undefined)

----------------------------------------------------------------------------
(* Properties of the real runs of push and pull *)

\* the last command printed its line of success
Succeeded ==
    \/ call.op = "push" /\ Line("Successfully pushed ", <<JStr(call.filePath)>>) \in Range(out)
    \/ call.op = "pull" /\ Line("Successfully pulled ", <<JStr(call.filePath)>>) \in Range(out)

\* the entry of the last command's path in the manifest file of d
EntryOf(d) == GetProp(LinkedFiles(d), call.filePath)

\* C17: a real push of a path with no entry in the manifest (absent, or with a
\* `files` object) succeeds when pandoc converts the file; when it succeeds
\* createDoc was called once and the manifest file holds an entry for the path
\* with the non-empty id createDoc returned and the time of the push as lastSync,
\* next to the entries it held before.
PushCreates ==
    (/\ call.op = "push"
     /\ ~call.options.dryRun
     /\ HasFiles(pre[MANIFEST_FILE])
     /\ call.filePath \notin Keys(LinkedFiles(pre)))
        => /\ Succeeded = (call.env.pandoc = "ok")
           /\ Succeeded
                  => /\ effects.createDoc = 1
                     /\ effects.writeFile = 1
                     /\ disk[MANIFEST_FILE].exists
                     /\ Keys(EntryOf(disk)) = {"gdocId", "lastSync"}
                     /\ GetProp(EntryOf(disk), "gdocId") = JStr(call.env.fakeId)
                     /\ call.env.fakeId # ""
                     /\ GetProp(EntryOf(disk), "lastSync") = JDate(call.now)
                     /\ \A p \in Keys(LinkedFiles(pre)) :
                            LinkedFiles(disk).m[p] = LinkedFiles(pre).m[p]

\* a push at a later time created the entry of a second path
PushCreatesWitness ==
    /\ call.op = "push"
    /\ ~call.options.dryRun
    /\ call.now = MaxClock
    /\ pre[MANIFEST_FILE].exists
    /\ HasFiles(pre[MANIFEST_FILE])
    /\ Keys(LinkedFiles(pre)) = LocalPaths \ {call.filePath}
    /\ Succeeded
    /\ Keys(LinkedFiles(disk)) = LocalPaths

\* C18: a real push of a path whose entry holds a remote id does not call
\* createDoc and leaves the manifest file, and so the entry's id, as it was,
\* whether the push succeeds or not; createDoc is called only for a path whose
\* entry is missing or holds no id.
PushKeepsId ==
    (call.op = "push" /\ ~call.options.dryRun)
        => /\ HasRemoteId(pre[MANIFEST_FILE], call.filePath)
               => /\ effects.createDoc = 0
                  /\ GetProp(EntryOf(disk), "gdocId") = GetProp(EntryOf(pre), "gdocId")
                  /\ Succeeded = (call.env.pandoc = "ok")
           /\ effects.createDoc > 0 => ~HasRemoteId(pre[MANIFEST_FILE], call.filePath)

\* a real push of a linked path succeeded
PushKeepsIdWitness ==
    /\ call.op = "push"
    /\ ~call.options.dryRun
    /\ HasRemoteId(pre[MANIFEST_FILE], call.filePath)
    /\ Succeeded
    /\ Line("  Updating existing doc: ", <<GetProp(EntryOf(pre), "gdocId")>>) \in Range(out)

\* C19: after every real push and every real pull that succeeds, the entry of
\* the path holds the time of that operation as lastSync, also when the path was
\* linked before.
SyncStamped ==
    (call.op \in {"push", "pull"} /\ ~call.options.dryRun /\ Succeeded)
        => GetProp(EntryOf(disk), "lastSync") = JDate(call.now)

\* C20: no init, link, push, pull or status run removes the entry of a path
\* from a manifest that held it.
NoEntryRemoved ==
    (call.op \in {"init", "link", "push", "pull", "status"} /\ HasFiles(pre[MANIFEST_FILE]))
        => /\ HasFiles(disk[MANIFEST_FILE])
           /\ Keys(LinkedFiles(pre)) \subseteq Keys(LinkedFiles(disk))

----------------------------------------------------------------------------
(* Properties of the process exit *)

\* bin/draftsync.js: the process ends with 0 when the handler's promise resolves
\* and with 1 when it rejects (an unhandled rejection)
ExitStatus(r) == IF r.thrown = "none" THEN 0 ELSE 1

\* the last command reported an error: it threw, printed the line of its catch
\* block, or printed that the path is not linked
Failed ==
    \/ ret.thrown # "none"
    \/ \E i \in DOMAIN out : out[i].msg \in {"x Error: ", NOT_LINKED}

\* C21: a command ends with a non-zero exit status exactly when it failed: a pull
\* of an unlinked path, a push or pull whose conversion fails or whose pandoc is
\* missing, and any command on an unparseable manifest exit with non-zero.
ExitReflectsFailure ==
    call.op \in {"init", "link", "push", "pull", "status"}
        => (ExitStatus(ret) # 0) = Failed

----------------------------------------------------------------------------
(* Properties of a missing tool *)

\* the tool ran and ended with a non-zero exit status
ToolRanAndFailed(sp) == sp.error = Undefined /\ sp.status \notin {Null, Undefined, JNum(0)}

\* what the last conversion would have returned had spawnSync reported sp
OutcomeWith(sp) ==
    IF call.op = "mdToDocx" THEN mdToDocx(call.mdPath, call.outDocx, call.refdoc, sp).ret
    ELSE docxToMd(call.docxPath, call.outMd, sp).ret

\* the error says that the tool is not installed and where to install it from
HasGuidance(r) == r.message = PandocNotInstalled.message

\* C22: a conversion whose tool binary is missing throws an error with installation
\* guidance that differs from the error of every run in which the tool started and
\* exited with a non-zero status, and the tool is spawned once
ToolNotFoundDistinct ==
    call.op \in {"mdToDocx", "docxToMd"} /\ call.spawned.error = ENOENT
        => /\ ret.thrown # "none"
           /\ HasGuidance(ret)
           /\ \A sp \in SpawnResults : ToolRanAndFailed(sp) => OutcomeWith(sp) # ret
           /\ Len(effects.spawnSync) = 1

----------------------------------------------------------------------------
(* Properties of the house style requests *)

\* the property of the options of the last call, undefined when left out
OptionGiven(key) == IF call.options = Undefined THEN Undefined ELSE GetProp(call.options, key)

Sides == {"marginTop", "marginBottom", "marginLeft", "marginRight"}

\* C23: buildHouseStyleRequests returns one to three requests in a fixed order: first
\* an updateDocumentStyle whose four margins are marginsInch x 72 PT (72 when left
\* out), then an updateParagraphStyle with lineSpacing 200 exactly when doubleSpacing
\* is true or left out, then a createHeader of type DEFAULT exactly when a header
\* text (a non-empty string) is given
HouseStyleRequests ==
    call.op = "buildHouseStyleRequests"
        => LET inches == IF OptionGiven("marginsInch") = Undefined THEN 1
                         ELSE OptionGiven("marginsInch").n
               spacing == OptionGiven("doubleSpacing") \in {Undefined, JBool(TRUE)}
               header == OptionGiven("headerText") \notin {Undefined, Null, JStr("")}
               reqs == ret.v
           IN  /\ ret.thrown = "none"
               /\ Len(reqs) \in 1..3
               /\ Len(reqs) = 1 + (IF spacing THEN 1 ELSE 0) + (IF header THEN 1 ELSE 0)
               /\ DOMAIN reqs[1] = {"updateDocumentStyle"}
               /\ \A side \in Sides :
                      reqs[1].updateDocumentStyle.documentStyle[side]
                          = [magnitude |-> inches * 72, unit |-> "PT"]
               /\ spacing => /\ DOMAIN reqs[2] = {"updateParagraphStyle"}
                              /\ reqs[2].updateParagraphStyle.paragraphStyle.lineSpacing = 200
               /\ header => /\ DOMAIN reqs[Len(reqs)] = {"createHeader"}
                             /\ reqs[Len(reqs)].createHeader.type = "DEFAULT"

\* two inches, double spacing and a header text: three requests
HouseStyleRequestsWitness ==
    /\ call.op = "buildHouseStyleRequests"
    /\ OptionGiven("marginsInch") = JNum(2)
    /\ OptionGiven("doubleSpacing") = JBool(TRUE)
    /\ OptionGiven("headerText") = JStr("Surname / Title")
    /\ Len(ret.v) = 3
    /\ ret.v[1].updateDocumentStyle.documentStyle.marginLeft.magnitude = 144

----------------------------------------------------------------------------
(* Properties of the order of the steps *)

\* the last command was a push or a pull that was not a dry run
RealSync == call.op \in {"push", "pull"} /\ ~call.options.dryRun

\* the positions of a step among the steps of the last command
StepsAt(name) == {i \in DOMAIN effects.steps : effects.steps[i] = name}

\* C24: in a real push the conversion comes before the remote id is allocated and
\* that before the manifest is written, in a real pull the conversion comes before
\* the manifest is written; the id is allocated and the manifest is written only
\* when the conversion has succeeded
ConvertThenRecord ==
    RealSync
        => /\ \A i \in StepsAt("createDoc") \cup StepsAt("saveManifest") :
                  /\ call.env.pandoc = "ok"
                  /\ \E j \in StepsAt("convert") : j < i
           /\ \A i \in StepsAt("saveManifest") :
                  call.op = "push" => \E j \in StepsAt("createDoc") : j < i
           /\ disk # pre => StepsAt("saveManifest") # {}
           /\ effects.createDoc > 0 => StepsAt("createDoc") # {}
           /\ call.env.pandoc # "ok" => disk = pre /\ effects.createDoc = 0

\* a real push that converted, created a document and then wrote the manifest
ConvertThenRecordWitness ==
    /\ RealSync
    /\ call.op = "push"
    /\ effects.steps = <<"authenticate", "convert", "createDoc", "saveManifest">>
    /\ disk # pre

----------------------------------------------------------------------------
(* Properties of two invocations at the same time *)

\* both invocations have ended and at least one has written the manifest
BothFinished ==
    /\ \A p \in Procs : procs[p].pc \in {"done", "failed"}
    /\ \E p \in Procs : procs[p].pc = "done"

\* the invocation whose write came last
LastWriter == CHOOSE p \in Procs : \A q \in Procs : procs[q].wrote <= procs[p].wrote

\* one invocation opened the file while the other had it open
Overlapped == \E p \in Procs : procs[p].overlap

\* the manifest file holds the change of the command
Present(cmd) ==
    LET loaded == loadManifest(disk) IN
    /\ loaded.thrown = "none"
    /\ IF cmd.op = "init" THEN "version" \in Keys(loaded.v)
       ELSE GetProp(GetProp(loaded.v, "files"), cmd.filePath) # Undefined

----------------------------------------------------------------------------
(* Properties of the tool invocation of push and pull *)

NotQuote(x) == x # "\""

\* the arguments the shell hands to the tool: the words after the command name,
\* each without its quotes, as the pieces it is made of
ShellArgs(command) ==
    [i \in 1..(Len(command) - 1) |-> SelectSeq(command[i + 1], NotQuote)]

\* an argument array as the words a shell would hand over
AsWords(args) == [i \in DOMAIN args |-> <<args[i]>>]

\* the last command was a real push or pull that ran its conversion command
Converted == RealSync /\ Len(effects.exec) = 2

\* C26: the conversion a real push runs has exactly the arguments of
\* buildMdToDocxArgs for its paths and reference document, the one a real pull runs
\* exactly those of buildDocxToMdArgs, with no other argument
InvokesBuiltArgs ==
    Converted
        => ShellArgs(effects.exec[2])
               = AsWords(IF call.op = "push"
                         THEN buildMdToDocxArgs(call.filePath, DocxPath(call.filePath),
                                                call.options.refdoc).a
                         ELSE buildDocxToMdArgs(DocxPath(call.filePath), call.filePath).a)

----------------------------------------------------------------------------
(* Properties of a failed push or pull *)

----------------------------------------------------------------------------
(* Properties of what a command leaves alone *)

\* the manifest a manifest file stands for: the parsed text, undefined when the
\* file is absent or is not JSON
ManifestOf(d) == JSONparse(d[MANIFEST_FILE].text).v

\* C28: link, push and pull of a path leave the entry of every other path and every
\* top-level member of the manifest other than `files` (version, config) as they were
OnlyOwnEntry ==
    call.op \in {"link", "push", "pull"}
        => LET before == ManifestOf(pre)
               after == ManifestOf(disk)
           IN  /\ \A key \in (Keys(before) \cup Keys(after) \cup {"version", "config"}) \ {"files"} :
                      GetProp(after, key) = GetProp(before, key)
               /\ \A q \in (Keys(FilesOf(pre)) \cup Keys(FilesOf(disk))) \ {call.filePath} :
                      GetProp(FilesOf(disk), q) = GetProp(FilesOf(pre), q)

\* a command that changed the entry of its path in a manifest with a version, a
\* config and an entry for another path
OnlyOwnEntryWitness ==
    /\ call.op \in {"link", "push", "pull"}
    /\ disk # pre
    /\ {"version", "config"} \subseteq Keys(ManifestOf(pre))
    /\ Keys(FilesOf(pre)) \ {call.filePath} # {}
    /\ EntryOf(disk) # EntryOf(pre)

----------------------------------------------------------------------------
(* Properties of the manifest the commands keep *)

\* the manifest file is absent, or is JSON with a `files` object in which every
\* entry has a non-empty gdocId and a lastSync
ValidManifest(d) ==
    \/ ~d[MANIFEST_FILE].exists
    \/ /\ JSONparse(d[MANIFEST_FILE].text).thrown = "none"
       /\ IsObj(FilesOf(d))
       /\ \A q \in Keys(FilesOf(d)) :
              /\ HasRemoteId(d[MANIFEST_FILE], q)
              /\ "lastSync" \in Keys(GetProp(FilesOf(d), q))

\* C29: init, link, push and pull keep the manifest valid: run on an absent
\* manifest or on a valid one, each leaves JSON with a `files` object in which
\* every entry has a non-empty gdocId and a lastSync
ManifestStaysValid ==
    call.op \in {"init", "link", "push", "pull"} /\ ValidManifest(pre)
        => ValidManifest(disk)

----------------------------------------------------------------------------
(* Properties of check:epub *)

\* check:epub looked for the file, found it and went on to the validator
Validated == call.op = "check:epub" /\ call.env.exists

\* the last command printed the line
Says(msg) == \E i \in DOMAIN out : out[i].msg = msg

\* C30: check:epub reports a missing epubcheck as 'epubcheck not installed', with
\* the lines on how to install it, and not as a failed validation; it reports
\* 'EPUB validation failed' only when epubcheck ran and found errors and 'EPUB is
\* valid' only when epubcheck ran and exited with 0
MissingValidatorDistinct ==
    Validated
        => /\ ~call.env.epubcheck.found
                  => /\ Says(EPUBCHECK_MISSING)
                     /\ Says("Install epubcheck to validate EPUB files:")
                     /\ ~Says(EPUB_INVALID)
           /\ Says(EPUB_INVALID) => call.env.epubcheck.found /\ call.env.epubcheck.code # 0
           /\ Says(EPUB_VALID) => call.env.epubcheck.found /\ call.env.epubcheck.code = 0

====
